---- MODULE Spec2Model ----
(***************************************************************************)
(* Quota governance, tenant partitioning and retry policy of rag-api.      *)
(*                                                                         *)
(* Spec          request handlers (AddDocument, Query) run by independent  *)
(*               Lambda invocations over the two DynamoDB tables           *)
(* SpecPartition S3VectorsClient.get_user_index_name on bounded ids        *)
(* SpecFilter    S3VectorsClient.query_user_documents /                    *)
(*               list_user_documents_extended over store answers           *)
(* SpecRetry     retry_handler.retry_with_backoff, one loop step at a time *)
(* SpecRace      concurrent AddDocument invocations of one tenant          *)
(* SpecExtended  plan update, document delete and the image handlers       *)
(* SpecLedger    an image usage record followed by its delete record       *)
(* SpecIsolation every quota operation of one tenant next to the items of  *)
(*               another                                                   *)
(* SpecDeleteRace concurrent image_delete_handler requests for one image   *)
(*                                                                         *)
(* Storage sizes are kept in bytes (the code divides by 1024*1024 and      *)
(* keeps MB as a float).  Window keys are numbers: the day key of month m, *)
(* day d is m*100+d, the month key is m; 0 is an absent attribute.         *)
(***************************************************************************)
EXTENDS Integers, Sequences, FiniteSets, TLC

\* ---------------------------------------------------------------- bounds
NumInvocations == 1
NumRacers == 3
MaxTicks == 1

Tenants == {"t1", "t2"}
\* The tenant whose requests are explored; the other one's records are there
\* to be left alone.
Callers == {"t1"}
NoKey == 0
BytesPerMB == 1024 * 1024

VARIABLES
    quotaTable,   \* rag-user-quotas : tenant -> plan item
    usageTable,   \* rag-user-usage  : tenant -> usage item
    today,        \* datetime.utcnow() date: [m, d]
    ticks,        \* number of day changes so far
    inv,          \* per Lambda invocation: position, request, locals, response
    ids,          \* SpecPartition: the two raw tenant ids
    parts,        \* SpecPartition: what get_user_index_name gave for each
    call,         \* SpecFilter: the client call and its arguments
    answer,       \* SpecFilter: what the store answers for the partition
    returned,     \* SpecFilter: what the client method returns
    retry,        \* SpecRetry: the state of one retry_with_backoff call
    imageUsage,   \* rag-user-usage : tenant -> the image attributes of the item
    ledger,       \* SpecLedger: an image upload record and its delete record
    imageTable    \* SpecDeleteRace: tenant -> ids of the stored image items

handlerVars == <<quotaTable, usageTable, today, ticks, inv>>
partitionVars == <<ids, parts>>
filterVars == <<call, answer, returned>>
retryVars == <<retry>>
imageVars == <<imageUsage, ledger, imageTable>>
vars == <<handlerVars, partitionVars, filterVars, retryVars, imageVars>>

\* ------------------------------------------------------------ plan table
\* Variant: the premium plan allows fewer images than the basic plan.
PLAN_DEFAULTS_PremiumFewerImages ==
    [free    |-> [max_documents |-> 50, max_vectors |-> 5000,
                  max_storage_size_mb |-> 50, max_monthly_queries |-> 500,
                  max_daily_uploads |-> 5, max_images |-> 20,
                  max_image_storage_mb |-> 100, max_image_vectors |-> 1000,
                  max_monthly_image_analyses |-> 50],
     basic   |-> [max_documents |-> 200, max_vectors |-> 20000,
                  max_storage_size_mb |-> 200, max_monthly_queries |-> 2000,
                  max_daily_uploads |-> 20, max_images |-> 100,
                  max_image_storage_mb |-> 500, max_image_vectors |-> 5000,
                  max_monthly_image_analyses |-> 200],
     premium |-> [max_documents |-> 1000, max_vectors |-> 100000,
                  max_storage_size_mb |-> 1000, max_monthly_queries |-> 10000,
                  max_daily_uploads |-> 100, max_images |-> 50,
                  max_image_storage_mb |-> 2000, max_image_vectors |-> 20000,
                  max_monthly_image_analyses |-> 1000]]

PLAN_DEFAULTS ==
    [free    |-> [max_documents |-> 50, max_vectors |-> 5000,
                  max_storage_size_mb |-> 50, max_monthly_queries |-> 500,
                  max_daily_uploads |-> 5, max_images |-> 20,
                  max_image_storage_mb |-> 100, max_image_vectors |-> 1000,
                  max_monthly_image_analyses |-> 50],
     basic   |-> [max_documents |-> 200, max_vectors |-> 20000,
                  max_storage_size_mb |-> 200, max_monthly_queries |-> 2000,
                  max_daily_uploads |-> 20, max_images |-> 100,
                  max_image_storage_mb |-> 500, max_image_vectors |-> 5000,
                  max_monthly_image_analyses |-> 200],
     premium |-> [max_documents |-> 1000, max_vectors |-> 100000,
                  max_storage_size_mb |-> 1000, max_monthly_queries |-> 10000,
                  max_daily_uploads |-> 100, max_images |-> 500,
                  max_image_storage_mb |-> 2000, max_image_vectors |-> 20000,
                  max_monthly_image_analyses |-> 1000]]

\* The plans in the order PLAN_DEFAULTS lists them, lowest tier first.
PlanTier == [free |-> 1, basic |-> 2, premium |-> 3]

\* The fields the UserQuota dataclass declares.
UserQuota(plan_type, d, w, s, q, u) ==
    [plan_type |-> plan_type, max_documents |-> d, max_vectors |-> w,
     max_storage_size_mb |-> s, max_monthly_queries |-> q,
     max_daily_uploads |-> u]

\* A stored plan item; exists = FALSE is "no Item in the response".
NoPlanItem ==
    [exists |-> FALSE, plan_type |-> "free", max_documents |-> 0,
     max_vectors |-> 0, max_storage_size_mb |-> 0,
     max_monthly_queries |-> 0, max_daily_uploads |-> 0]

PlanItem(p) ==
    [exists |-> TRUE, plan_type |-> p,
     max_documents |-> PLAN_DEFAULTS[p].max_documents,
     max_vectors |-> PLAN_DEFAULTS[p].max_vectors,
     max_storage_size_mb |-> PLAN_DEFAULTS[p].max_storage_size_mb,
     max_monthly_queries |-> PLAN_DEFAULTS[p].max_monthly_queries,
     max_daily_uploads |-> PLAN_DEFAULTS[p].max_daily_uploads]

\* The fields the UserQuota dataclass takes besides user_id, created_at and
\* updated_at.
UserQuotaFields ==
    {"plan_type", "max_documents", "max_vectors", "max_storage_size_mb",
     "max_monthly_queries", "max_daily_uploads"}

\* UserQuota(user_id=.., plan_type=.., **defaults), the defaults being those
\* of plan_type, or of "free" for a name PLAN_DEFAULTS lacks: the defaults
\* hold max_images and the other image limits, which the dataclass does not
\* declare, so the call raises TypeError.
DefaultQuota(plan_type) ==
    LET d == PLAN_DEFAULTS[IF plan_type \in DOMAIN PLAN_DEFAULTS
                           THEN plan_type ELSE "free"]
    IN  IF DOMAIN d \subseteq UserQuotaFields
        THEN [raised |-> FALSE,
              quota |-> UserQuota(plan_type, d.max_documents, d.max_vectors,
                                  d.max_storage_size_mb,
                                  d.max_monthly_queries, d.max_daily_uploads)]
        ELSE [raised |-> TRUE, quota |-> UserQuota("free", 0, 0, 0, 0, 0)]

\* Variant: a plan name PLAN_DEFAULTS lacks is looked up as "free" when an
\* Item is stored.
get_user_quota_UnknownAsFree(qt, t, plan_type) ==
    IF qt[t].exists
    THEN [raised |-> FALSE,
          quota |-> UserQuota(qt[t].plan_type, qt[t].max_documents,
                              qt[t].max_vectors, qt[t].max_storage_size_mb,
                              qt[t].max_monthly_queries,
                              qt[t].max_daily_uploads)]
    ELSE DefaultQuota(plan_type)

\* get_user_quota(user_id, plan_type="free"): with an Item, the stored
\* fields, each item.get evaluating PLAN_DEFAULTS[plan_type][..] for its
\* default (KeyError for a name PLAN_DEFAULTS lacks); without an Item, and
\* in the except branch, the default quota.
get_user_quota(qt, t, plan_type) ==
    IF qt[t].exists /\ plan_type \in DOMAIN PLAN_DEFAULTS
    THEN [raised |-> FALSE,
          quota |-> UserQuota(qt[t].plan_type, qt[t].max_documents,
                              qt[t].max_vectors, qt[t].max_storage_size_mb,
                              qt[t].max_monthly_queries,
                              qt[t].max_daily_uploads)]
    ELSE DefaultQuota(plan_type)

\* ----------------------------------------------------------- usage table
DayKey(c) == c.m * 100 + c.d
MonthKey(c) == c.m

\* An absent usage item and an item without the attribute read the same:
\* every item.get has a 0 / None default and ADD starts from 0.
EmptyUsage ==
    [current_documents |-> 0, current_vectors |-> 0,
     current_storage_bytes |-> 0, monthly_queries |-> 0, daily_uploads |-> 0,
     month_year |-> NoKey, upload_date |-> NoKey]

\* get_user_usage followed by QuotaUsage.__post_init__: a missing window key
\* becomes the current one.
get_user_usage(ut, t, now) ==
    [ut[t] EXCEPT
        !.month_year = IF @ = NoKey THEN MonthKey(now) ELSE @,
        !.upload_date = IF @ = NoKey THEN DayKey(now) ELSE @]

\* ---------------------------------------------------------- quota checks
\* Variant: the stored counter is used whatever its window key.
ResetDailyNever(usage, now) == usage

\* check_quota_before_upload, "if usage.upload_date != today": the local
\* usage object gets daily_uploads = 0 and today's key (nothing is stored).
ResetDailyIfNewDay(usage, now) ==
    IF usage.upload_date # DayKey(now)
    THEN [usage EXCEPT !.daily_uploads = 0, !.upload_date = DayKey(now)]
    ELSE usage

\* check_quota_before_query, "if usage.month_year != current_month".
ResetMonthlyIfNewMonth(usage, now) ==
    IF usage.month_year # MonthKey(now)
    THEN [usage EXCEPT !.monthly_queries = 0, !.month_year = MonthKey(now)]
    ELSE usage

\* Variant: the vector test turns away a request that exactly fills the
\* limit.
UploadLimitTestsStrictVectors(quota, u, text_bytes, estimated_vectors) ==
    IF u.current_documents >= quota.max_documents
    THEN [allowed |-> FALSE,
          reason |-> <<"Document limit exceeded",
                       u.current_documents, quota.max_documents>>]
    ELSE IF u.current_vectors + estimated_vectors >= quota.max_vectors
    THEN [allowed |-> FALSE,
          reason |-> <<"Vector limit would be exceeded",
                       u.current_vectors + estimated_vectors,
                       quota.max_vectors>>]
    ELSE IF u.current_storage_bytes + text_bytes
                > quota.max_storage_size_mb * BytesPerMB
    THEN [allowed |-> FALSE,
          reason |-> <<"Storage limit would be exceeded",
                       u.current_storage_bytes + text_bytes,
                       quota.max_storage_size_mb * BytesPerMB>>]
    ELSE IF u.daily_uploads >= quota.max_daily_uploads
    THEN [allowed |-> FALSE,
          reason |-> <<"Daily upload limit exceeded",
                       u.daily_uploads, quota.max_daily_uploads>>]
    ELSE [allowed |-> TRUE, reason |-> <<"OK", 0, 0>>]

\* The limit tests of check_quota_before_upload, in the code's order; the
\* reason is the message's text and the two numbers it prints.
UploadLimitTests(quota, u, text_bytes, estimated_vectors) ==
    IF u.current_documents >= quota.max_documents
    THEN [allowed |-> FALSE,
          reason |-> <<"Document limit exceeded",
                       u.current_documents, quota.max_documents>>]
    ELSE IF u.current_vectors + estimated_vectors > quota.max_vectors
    THEN [allowed |-> FALSE,
          reason |-> <<"Vector limit would be exceeded",
                       u.current_vectors + estimated_vectors,
                       quota.max_vectors>>]
    ELSE IF u.current_storage_bytes + text_bytes
                > quota.max_storage_size_mb * BytesPerMB
    THEN [allowed |-> FALSE,
          reason |-> <<"Storage limit would be exceeded",
                       u.current_storage_bytes + text_bytes,
                       quota.max_storage_size_mb * BytesPerMB>>]
    ELSE IF u.daily_uploads >= quota.max_daily_uploads
    THEN [allowed |-> FALSE,
          reason |-> <<"Daily upload limit exceeded",
                       u.daily_uploads, quota.max_daily_uploads>>]
    ELSE [allowed |-> TRUE, reason |-> <<"OK", 0, 0>>]

\* check_quota_before_upload; raised when get_user_quota raises.
check_quota_before_upload(qt, ut, t, now, text_bytes, estimated_vectors) ==
    LET q == get_user_quota(qt, t, "free")
        u == ResetDailyIfNewDay(get_user_usage(ut, t, now), now)
    IN  IF q.raised
        THEN [raised |-> TRUE, allowed |-> FALSE, reason |-> <<"TypeError", 0, 0>>]
        ELSE [raised |-> FALSE]
             @@ UploadLimitTests(q.quota, u, text_bytes, estimated_vectors)

\* The limit test of check_quota_before_query.
QueryLimitTest(quota, u) ==
    IF u.monthly_queries >= quota.max_monthly_queries
    THEN [allowed |-> FALSE,
          reason |-> <<"Monthly query limit exceeded",
                       u.monthly_queries, quota.max_monthly_queries>>]
    ELSE [allowed |-> TRUE, reason |-> <<"OK", 0, 0>>]

check_quota_before_query(qt, ut, t, now) ==
    LET q == get_user_quota(qt, t, "free")
        u == ResetMonthlyIfNewMonth(get_user_usage(ut, t, now), now)
    IN  IF q.raised
        THEN [raised |-> TRUE, allowed |-> FALSE, reason |-> <<"TypeError", 0, 0>>]
        ELSE [raised |-> FALSE] @@ QueryLimitTest(q.quota, u)

\* --------------------------------------------------------- usage records
\* Variant: :vec_inc bound to current_documents as well.
update_usage_after_upload_VecIncDocs(item, now, vector_count, size_bytes) ==
    [item EXCEPT
        !.current_documents = @ + vector_count,
        !.current_vectors = @ + vector_count,
        !.current_storage_bytes = @ + size_bytes,
        !.daily_uploads = @ + 1,
        !.upload_date = DayKey(now)]

\* The UpdateExpression of update_usage_after_upload: ADD on the four
\* counters, SET upload_date (one atomic update_item; it creates the item).
update_usage_after_upload(item, now, vector_count, size_bytes) ==
    [item EXCEPT
        !.current_documents = @ + 1,
        !.current_vectors = @ + vector_count,
        !.current_storage_bytes = @ + size_bytes,
        !.daily_uploads = @ + 1,
        !.upload_date = DayKey(now)]

\* The UpdateExpression of update_usage_after_query.
update_usage_after_query(item, now) ==
    [item EXCEPT
        !.monthly_queries = @ + 1,
        !.month_year = MonthKey(now)]

\* get_quota_status: current and max per dimension, with the window keys
\* (the percentages are floats derived from these and are left out).
\* It raises when get_user_quota does.
get_quota_status(qt, ut, t, now) ==
    LET q == get_user_quota(qt, t, "free")
        u == get_user_usage(ut, t, now)
    IN  [raised |-> q.raised,
         plan_type |-> q.quota.plan_type,
         documents |-> <<u.current_documents, q.quota.max_documents>>,
         vectors |-> <<u.current_vectors, q.quota.max_vectors>>,
         storage |-> <<u.current_storage_bytes,
                       q.quota.max_storage_size_mb * BytesPerMB>>,
         monthly_queries |-> <<u.monthly_queries,
                               q.quota.max_monthly_queries, u.month_year>>,
         daily_uploads |-> <<u.daily_uploads,
                             q.quota.max_daily_uploads, u.upload_date>>]

\* estimate_vector_count(text) with chunk_size 1000: int(chunks * 1.2).
estimate_vector_count(chars) ==
    IF chars = 0 THEN 0
    ELSE LET estimated_chunks ==
                 (chars \div 1000) + (IF chars % 1000 > 0 THEN 1 ELSE 0)
         IN  (estimated_chunks * 12) \div 10

\* --------------------------------------------------- chat model with retry
BedrockMaxRetries == 3
AttemptOutcomes == {"ok", "throttle", "other"}

\* Variant: every exception is retried while attempts remain.
BedrockRetriesAnyError(o) == o # "ok"

\* "'ThrottlingException' in str(e) or 'TooManyRequestsException' in str(e)"
BedrockRetries(o) == o = "throttle"

\* invoke_bedrock_with_retry from attempt a on, given what model.invoke does
\* on each attempt: the result, the number of model.invoke calls and the
\* number of time.sleep calls (one per attempt that was retried).
RECURSIVE BedrockLoop(_, _)
BedrockLoop(outs, a) ==
    IF a >= BedrockMaxRetries
    THEN [ok |-> FALSE, calls |-> a, sleeps |-> a, error |-> "max retries"]
    ELSE IF outs[a + 1] = "ok"
    THEN [ok |-> TRUE, calls |-> a + 1, sleeps |-> a, error |-> "none"]
    ELSE IF BedrockRetries(outs[a + 1]) /\ a < BedrockMaxRetries - 1
    THEN BedrockLoop(outs, a + 1)
    ELSE [ok |-> FALSE, calls |-> a + 1, sleeps |-> a,
          error |-> outs[a + 1]]

invoke_bedrock_with_retry(outs) == BedrockLoop(outs, 0)

\* ------------------------------------------------------------ invocations
\* Request texts: len(text), len(text.encode('utf-8')) and the number of
\* chunks MarkdownTextSplitter(chunk_size=1000, chunk_overlap=200) cuts the
\* text into: one short line; three 600-character paragraphs, none of which
\* fits into a chunk with its neighbour; 1001 three-byte characters.
NoText == [chars |-> 0, bytes |-> 0, chunks |-> 0]

Texts ==
    {NoText,
     [chars |-> 1, bytes |-> 1, chunks |-> 1],
     [chars |-> 1804, bytes |-> 1804, chunks |-> 3],
     [chars |-> 1001, bytes |-> 3003, chunks |-> 2]}

\* What a call to the embedding service or the vector store does: it
\* answers, or raises with or without "not found" / "does not exist" in the
\* message; "throttled" is a ThrottlingException / TooManyRequestsException.
CallOutcomes == {"ok", "not_found", "error", "throttled"}

NoFault == <<"none", "ok">>

IdleInv ==
    [pc |-> "idle", kind |-> "none", tenant |-> "t1",
     text |-> NoText, estimated_vectors |-> 0,
     vector_count |-> 0, status |-> 0, message |-> <<"OK", 0, 0>>,
     quota_status |-> <<>>,
     calls |-> {}, fault |-> NoFault, tries |-> 0, updates |-> 0,
     plan |-> "none", checks |-> {}, recorded |-> {},
     resource |-> [size |-> 0, vectors |-> 0]]

\* create_cors_response ends the invocation: the response and what the
\* invocation did remain, its locals are gone.
Respond(p, code, fields) ==
    inv' = [inv EXCEPT ![p] =
              fields @@ [pc |-> "done", status |-> code]
              @@ [kind |-> @.kind, tenant |-> @.tenant, calls |-> @.calls,
                  fault |-> @.fault, message |-> @.message]
              @@ IdleInv]

\* Invocations are numbered in the order in which they start.
Arrives(p) ==
    /\ inv[p].pc = "idle"
    /\ \A q \in DOMAIN inv : q < p => inv[q].pc # "idle"

\* user_add_document_handler up to the quota check (lines 225-243).
AddCheck(p) ==
    /\ Arrives(p)
    /\ \E t \in Callers, text \in Texts :
         LET est == estimate_vector_count(text.chars)
             chk == check_quota_before_upload(quotaTable, usageTable, t,
                                              today, text.bytes, est)
             req == [kind |-> "add", tenant |-> t, text |-> text,
                     estimated_vectors |-> est]
         IN  IF text = NoText
             THEN Respond(p, 400, [kind |-> "add", tenant |-> t])
             ELSE IF chk.raised
             THEN Respond(p, 500, req)
             ELSE IF chk.allowed
             THEN inv' = [inv EXCEPT ![p] = [pc |-> "admitted"] @@ req @@ @]
             ELSE inv' = [inv EXCEPT ![p] =
                            [pc |-> "rejected", message |-> chk.reason]
                            @@ req @@ @]
    /\ UNCHANGED <<partitionVars, filterVars, retryVars, imageVars>>
    /\ UNCHANGED <<quotaTable, usageTable, today, ticks>>

\* Variant: the rejected request is charged as a query before the 429.
RejectCharged(p) ==
    /\ inv[p].pc = "rejected"
    /\ usageTable' = [usageTable EXCEPT ![inv[p].tenant] =
                        update_usage_after_query(@, today)]
    /\ LET st == get_quota_status(quotaTable, usageTable', inv[p].tenant, today)
       IN  Respond(p, 429, [quota_status |-> <<st>>])
    /\ UNCHANGED <<partitionVars, filterVars, retryVars, imageVars>>
    /\ UNCHANGED <<quotaTable, today, ticks>>

\* The 429 response of either handler (lines 121-124, 244-249): it reads
\* the status and returns.
Reject(p) ==
    /\ inv[p].pc = "rejected"
    /\ LET st == get_quota_status(quotaTable, usageTable, inv[p].tenant, today)
       IN  IF st.raised
           THEN Respond(p, 500, [fault |-> inv[p].fault])
           ELSE Respond(p, 429, [quota_status |-> <<st>>])
    /\ UNCHANGED <<partitionVars, filterVars, retryVars, imageVars>>
    /\ UNCHANGED <<quotaTable, usageTable, today, ticks>>

\* Variant: the vector count handed to the usage update is the estimate
\* the quota check was given.
AddPerformCountsEstimate(p) ==
    /\ inv[p].pc = "admitted"
    /\ inv[p].kind = "add"
    /\ \E embed \in CallOutcomes, put \in CallOutcomes :
         IF embed # "ok"
         THEN Respond(p, 500, [calls |-> {"embed"}, fault |-> <<"embed", embed>>,
                               tries |-> 1])
         ELSE IF put # "ok"
         THEN Respond(p, 500, [calls |-> {"embed", "store"},
                               fault |-> <<"store", put>>, tries |-> 1])
         ELSE inv' = [inv EXCEPT ![p] =
                        [pc |-> "stored",
                         vector_count |-> inv[p].estimated_vectors,
                         calls |-> {"embed", "store"}] @@ @]
    /\ UNCHANGED <<partitionVars, filterVars, retryVars, imageVars>>
    /\ UNCHANGED <<quotaTable, usageTable, today, ticks>>

\* add_user_document (lines 251-264): embed every chunk, then put_vectors,
\* and return len(vectors); any exception is the handler's 500.
AddPerform(p) ==
    /\ inv[p].pc = "admitted"
    /\ inv[p].kind = "add"
    /\ \E embed \in CallOutcomes, put \in CallOutcomes :
         IF embed # "ok"
         THEN Respond(p, 500, [calls |-> {"embed"}, fault |-> <<"embed", embed>>,
                               tries |-> 1])
         ELSE IF put # "ok"
         THEN Respond(p, 500, [calls |-> {"embed", "store"},
                               fault |-> <<"store", put>>, tries |-> 1])
         ELSE inv' = [inv EXCEPT ![p] =
                        [pc |-> "stored", vector_count |-> inv[p].text.chunks,
                         calls |-> {"embed", "store"}] @@ @]
    /\ UNCHANGED <<partitionVars, filterVars, retryVars, imageVars>>
    /\ UNCHANGED <<quotaTable, usageTable, today, ticks>>

\* Lines 266-278: update_usage_after_upload (an update_item failure is
\* caught and printed), then the 200 response with the status.
AddRecord(p) ==
    /\ inv[p].pc = "stored"
    /\ \E written \in BOOLEAN :
         LET t == inv[p].tenant
             ut == IF written
                   THEN [usageTable EXCEPT ![t] =
                           update_usage_after_upload(@, today,
                               inv[p].vector_count, inv[p].text.bytes)]
                   ELSE usageTable
             st == get_quota_status(quotaTable, ut, t, today)
         IN  /\ usageTable' = ut
             /\ IF st.raised
                THEN Respond(p, 500, [updates |-> IF written THEN 1 ELSE 0])
                ELSE Respond(p, 200, [updates |-> IF written THEN 1 ELSE 0,
                                      quota_status |-> <<st>>])
    /\ UNCHANGED <<partitionVars, filterVars, retryVars, imageVars>>
    /\ UNCHANGED <<quotaTable, today, ticks>>

\* user_query_handler up to the parsed question (lines 113-130).
QueryCheck(p) ==
    /\ Arrives(p)
    /\ \E t \in Callers, question_empty \in BOOLEAN :
         LET chk == check_quota_before_query(quotaTable, usageTable, t, today)
             req == [kind |-> "query", tenant |-> t]
         IN  IF chk.raised
             THEN Respond(p, 500, req)
             ELSE IF ~chk.allowed
             THEN inv' = [inv EXCEPT ![p] =
                            [pc |-> "rejected", message |-> chk.reason]
                            @@ req @@ @]
             ELSE IF question_empty
             THEN Respond(p, 400, req)
             ELSE inv' = [inv EXCEPT ![p] = [pc |-> "admitted"] @@ req @@ @]
    /\ UNCHANGED <<partitionVars, filterVars, retryVars, imageVars>>
    /\ UNCHANGED <<quotaTable, usageTable, today, ticks>>

\* query_user_documents (lines 144-149): embed the question, query the
\* index; an exception naming a missing index gives [], any other one is
\* raised to the handler.
QuerySearch(p) ==
    /\ inv[p].pc = "admitted"
    /\ inv[p].kind = "query"
    /\ \E embed \in CallOutcomes, query \in CallOutcomes :
         LET made == IF embed = "ok" THEN {"embed", "store"} ELSE {"embed"}
             flt == IF embed # "ok" THEN <<"embed", embed>>
                    ELSE IF query # "ok" THEN <<"store", query>>
                    ELSE NoFault
         IN  IF flt[2] \in {"error", "throttled"}
             THEN Respond(p, 500, [calls |-> made, fault |-> flt,
                                   tries |-> 1])
             ELSE inv' = [inv EXCEPT ![p] =
                            [pc |-> "searched", calls |-> made,
                             fault |-> flt] @@ @]
    /\ UNCHANGED <<partitionVars, filterVars, retryVars, imageVars>>
    /\ UNCHANGED <<quotaTable, usageTable, today, ticks>>

\* Variant: the query is recorded before the chat model is called.
QueryChatRecordedFirst(p) ==
    /\ inv[p].pc = "searched"
    /\ usageTable' = [usageTable EXCEPT ![inv[p].tenant] =
                        update_usage_after_query(@, today)]
    /\ \E outs \in [1..BedrockMaxRetries -> AttemptOutcomes] :
         LET r == invoke_bedrock_with_retry(outs)
         IN  IF r.ok
             THEN inv' = [inv EXCEPT ![p] =
                            [pc |-> "answered",
                             calls |-> inv[p].calls \cup {"chat"}] @@ @]
             ELSE Respond(p, 500, [calls |-> inv[p].calls \cup {"chat"},
                                   fault |-> <<"chat", "error">>,
                                   tries |-> r.calls])
    /\ UNCHANGED <<partitionVars, filterVars, retryVars, imageVars>>
    /\ UNCHANGED <<quotaTable, today, ticks>>

\* Lines 181-198: the chat model through invoke_bedrock_with_retry.
QueryChat(p) ==
    /\ inv[p].pc = "searched"
    /\ \E outs \in [1..BedrockMaxRetries -> AttemptOutcomes] :
         LET r == invoke_bedrock_with_retry(outs)
         IN  IF r.ok
             THEN inv' = [inv EXCEPT ![p] =
                            [pc |-> "answered",
                             calls |-> inv[p].calls \cup {"chat"}] @@ @]
             ELSE Respond(p, 500, [calls |-> inv[p].calls \cup {"chat"},
                                   fault |-> <<"chat", "error">>,
                                   tries |-> r.calls])
    /\ UNCHANGED <<partitionVars, filterVars, retryVars, imageVars>>
    /\ UNCHANGED <<quotaTable, usageTable, today, ticks>>

\* Lines 211-214: update_usage_after_query (failure caught and printed),
\* then the 200 response.
QueryRecord(p) ==
    /\ inv[p].pc = "answered"
    /\ \E written \in BOOLEAN :
         /\ usageTable' =
              IF written
              THEN [usageTable EXCEPT ![inv[p].tenant] =
                      update_usage_after_query(@, today)]
              ELSE usageTable
         /\ Respond(p, 200, [updates |-> IF written THEN 1 ELSE 0])
    /\ UNCHANGED <<partitionVars, filterVars, retryVars, imageVars>>
    /\ UNCHANGED <<quotaTable, today, ticks>>

\* The UTC date moves on: the next day of the month, or the first of the
\* next month.
Tick ==
    /\ ticks < MaxTicks
    /\ ticks' = ticks + 1
    /\ today' \in {[m |-> today.m, d |-> today.d + 1],
                   [m |-> today.m + 1, d |-> 1]}
    /\ UNCHANGED <<partitionVars, filterVars, retryVars, imageVars>>
    /\ UNCHANGED <<quotaTable, usageTable, inv>>

\* ------------------------------------------------------------------ Init
\* The variables of the other specifications rest at fixed values.
OthersIdle(mine) ==
    /\ mine \in {"handlers", "images", "deletes"}
         \/ (/\ quotaTable = [t \in Tenants |-> NoPlanItem]
             /\ usageTable = [t \in Tenants |-> EmptyUsage]
             /\ today = [m |-> 2, d |-> 1]
             /\ ticks = 0
             /\ inv = <<>>)
    /\ mine = "partition" \/ (ids = <<>> /\ parts = <<>>)
    /\ mine = "filter" \/ (call = <<>> /\ answer = <<>> /\ returned = <<>>)
    /\ mine = "retry" \/ retry = <<>>
    /\ mine \in {"images", "ledger", "deletes"} \/ imageUsage = <<>>
    /\ mine = "ledger" \/ ledger = <<>>
    /\ mine = "deletes" \/ imageTable = <<>>

StartDate == [m |-> 2, d |-> 1]

\* Usage items the handlers leave behind, for a tenant well inside the
\* free limits and for one at or next to each of them; Stale* carry the
\* window keys of the day and month before StartDate.
BaseUsage ==
    [current_documents |-> 10, current_vectors |-> 100,
     current_storage_bytes |-> BytesPerMB, monthly_queries |-> 10,
     daily_uploads |-> 1, month_year |-> MonthKey(StartDate),
     upload_date |-> DayKey(StartDate)]

UsageSeeds ==
    {EmptyUsage,
     [BaseUsage EXCEPT !.current_documents = 49],
     [BaseUsage EXCEPT !.current_documents = 50],
     [BaseUsage EXCEPT !.current_vectors = 4998],
     [BaseUsage EXCEPT !.current_vectors = 4999],
     [BaseUsage EXCEPT !.current_storage_bytes = 50 * BytesPerMB - 3000],
     [BaseUsage EXCEPT !.daily_uploads = 4],
     [BaseUsage EXCEPT !.daily_uploads = 5],
     [BaseUsage EXCEPT !.monthly_queries = 499],
     [BaseUsage EXCEPT !.monthly_queries = 500],
     [BaseUsage EXCEPT !.daily_uploads = 5, !.upload_date = 131,
                       !.monthly_queries = 500, !.month_year = 1]}

\* Plan items are provisioned outside these handlers; t1 has none or the
\* free one, t2 the basic one.
Init ==
    /\ quotaTable \in {[t \in Tenants |-> IF t = "t1" THEN q ELSE PlanItem("basic")] :
                         q \in {NoPlanItem, PlanItem("free")}}
    /\ usageTable \in {[t \in Tenants |-> IF t = "t1" THEN u ELSE EmptyUsage] :
                         u \in UsageSeeds}
    /\ today = StartDate
    /\ ticks = 0
    /\ inv = [p \in 1..NumInvocations |-> IdleInv]
    /\ OthersIdle("handlers")

Next ==
    \/ \E p \in DOMAIN inv : AddCheck(p)
    \/ \E p \in DOMAIN inv : Reject(p)
    \/ \E p \in DOMAIN inv : AddPerform(p)
    \/ \E p \in DOMAIN inv : AddRecord(p)
    \/ \E p \in DOMAIN inv : QueryCheck(p)
    \/ \E p \in DOMAIN inv : QuerySearch(p)
    \/ \E p \in DOMAIN inv : QueryChat(p)
    \/ \E p \in DOMAIN inv : QueryRecord(p)
    \/ Tick

Spec == Init /\ [][Next]_vars

\* ------------------------------------------------------------- SpecRace
\* NumRacers AddDocument invocations of t1, on the free plan, started with
\* the document counter at or below the limit.
InitRace ==
    /\ quotaTable = [t \in Tenants |->
                       IF t = "t1" THEN PlanItem("free") ELSE PlanItem("basic")]
    /\ usageTable \in {[t \in Tenants |->
                          IF t = "t1"
                          THEN [BaseUsage EXCEPT !.current_documents = d]
                          ELSE EmptyUsage] : d \in {48, 49, 50}}
    /\ today = StartDate
    /\ ticks = 0
    /\ inv = [p \in 1..NumRacers |-> IdleInv]
    /\ OthersIdle("handlers")

NextRace ==
    \/ \E p \in DOMAIN inv : AddCheck(p)
    \/ \E p \in DOMAIN inv : Reject(p)
    \/ \E p \in DOMAIN inv : AddPerform(p)
    \/ \E p \in DOMAIN inv : AddRecord(p)

SpecRace == InitRace /\ [][NextRace]_vars

\* -------------------------------------------------------- SpecPartition
MaxIdLen == 2

\* [a-zA-Z0-9_-], the characters re.sub keeps.
IndexNameChars ==
    {"a", "b", "c", "d", "e", "f", "g", "h", "i", "j", "k", "l", "m",
     "n", "o", "p", "q", "r", "s", "t", "u", "v", "w", "x", "y", "z",
     "A", "B", "C", "D", "E", "F", "G", "H", "I", "J", "K", "L", "M",
     "N", "O", "P", "Q", "R", "S", "T", "U", "V", "W", "X", "Y", "Z",
     "0", "1", "2", "3", "4", "5", "6", "7", "8", "9", "_", "-"}

\* The characters str.strip() removes from both ends.
Whitespace == {" ", "\t", "\n", "\r"}

\* Ids are sequences of characters, drawn from these.
IdChars == {"a", "1", "@", " "}

RECURSIVE LStrip(_)
LStrip(s) ==
    IF s # <<>> /\ Head(s) \in Whitespace THEN LStrip(Tail(s)) ELSE s

RECURSIVE RStrip(_)
RStrip(s) ==
    IF s # <<>> /\ s[Len(s)] \in Whitespace
    THEN RStrip(SubSeq(s, 1, Len(s) - 1))
    ELSE s

Strip(s) == RStrip(LStrip(s))

KeepsChar(c) == c \in IndexNameChars

\* re.sub(r'[^a-zA-Z0-9_-]', '', s)
Sanitize(s) == SelectSeq(s, KeepsChar)

IndexPrefix == <<"u", "s", "e", "r", "-">>
IndexSuffix ==
    <<"-", "k", "n", "o", "w", "l", "e", "d", "g", "e", "-", "b", "a", "s", "e">>

\* Variant: the sanitised id is not tested for emptiness.
get_user_index_name_Unchecked(user_id) ==
    IF user_id = <<>> \/ Strip(user_id) = <<>>
    THEN [error |-> "User ID cannot be empty", name |-> <<>>]
    ELSE [error |-> "",
          name |-> IndexPrefix \o Sanitize(Strip(user_id)) \o IndexSuffix]

\* get_user_index_name: the ValueError it raises, or the index name.
get_user_index_name(user_id) ==
    IF user_id = <<>> \/ Strip(user_id) = <<>>
    THEN [error |-> "User ID cannot be empty", name |-> <<>>]
    ELSE IF Sanitize(Strip(user_id)) = <<>>
    THEN [error |-> "Invalid user ID format", name |-> <<>>]
    ELSE [error |-> "",
          name |-> IndexPrefix \o Sanitize(Strip(user_id)) \o IndexSuffix]

RawIds == UNION {[1..n -> IdChars] : n \in 0..MaxIdLen}

InitPartition ==
    /\ ids \in [{"A", "B"} -> RawIds]
    /\ parts = [k \in {"A", "B"} |-> <<>>]
    /\ OthersIdle("partition")

\* One client resolves the partition of the id it was given.
Resolve(k) ==
    /\ parts[k] = <<>>
    /\ parts' = [parts EXCEPT ![k] = <<get_user_index_name(ids[k])>>]
    /\ UNCHANGED <<ids, handlerVars, filterVars, retryVars, imageVars>>

NextPartition == \E k \in {"A", "B"} : Resolve(k)

SpecPartition == InitPartition /\ [][NextPartition]_vars

\* ----------------------------------------------------------- SpecFilter
MaxAnswer == 2

\* Tenant ids of the callers: two that share an index name and one that has
\* none.
CallerIds == {<<"a">>, <<"a", "@">>, <<"@">>}
NoOwner == <<>>

\* Records the store holds: the metadata of a vector / a listed document.
\* user_id NoOwner is a record without that metadata.
StoreDocs ==
    {[user_id |-> <<"a">>, title |-> <<"A", "b">>, created_at |-> 1,
      vector_count |-> 2, text_len |-> 5],
     [user_id |-> <<"a">>, title |-> <<"b">>, created_at |-> 2,
      vector_count |-> 1, text_len |-> 9],
     [user_id |-> <<"a", "@">>, title |-> <<"a">>, created_at |-> 3,
      vector_count |-> 1, text_len |-> 7],
     [user_id |-> NoOwner, title |-> <<"a", "b">>, created_at |-> 2,
      vector_count |-> 3, text_len |-> 2]}

\* What the store call does: an answer, or an exception whose message does
\* or does not name a missing index.
StoreAnswers ==
    {[outcome |-> "ok", items |-> a] :
        a \in UNION {[1..n -> StoreDocs] : n \in 0..MaxAnswer}}
    \cup {[outcome |-> o, items |-> <<>>] : o \in {"not_found", "error"}}

\* str.lower() and ord() on the characters of titles and search strings.
Lower(c) == IF c = "A" THEN "a" ELSE c
Ord(c) == CASE c = "A" -> 65 [] c = "a" -> 97 [] c = "b" -> 98 [] OTHER -> 0
LowerStr(s) == [i \in 1..Len(s) |-> Lower(s[i])]

\* sub in s
Contains(s, sub) ==
    \E i \in 1..(Len(s) - Len(sub) + 1) : SubSeq(s, i, i + Len(sub) - 1) = sub

\* s < t on strings
RECURSIVE StrLess(_, _)
StrLess(s, t) ==
    IF t = <<>> THEN FALSE
    ELSE IF s = <<>> THEN TRUE
    ELSE IF Ord(Head(s)) # Ord(Head(t)) THEN Ord(Head(s)) < Ord(Head(t))
    ELSE StrLess(Tail(s), Tail(t))

\* key(x) < key(y) for the sort key list_user_documents_extended picks.
KeyLess(x, y, sort_by) ==
    IF sort_by = "title" THEN StrLess(x.title, y.title)
    ELSE IF sort_by = "vector_count" THEN x.vector_count < y.vector_count
    ELSE IF sort_by = "content_length" THEN x.text_len < y.text_len
    ELSE x.created_at < y.created_at

\* list.sort(key=..., reverse=...): stable in both directions.
RECURSIVE InsertSorted(_, _, _, _)
InsertSorted(sorted, x, sort_by, reverse) ==
    IF sorted = <<>> THEN <<x>>
    ELSE LET h == Head(sorted)
             xFirst == IF reverse THEN KeyLess(h, x, sort_by)
                       ELSE KeyLess(x, h, sort_by)
         IN  IF xFirst THEN <<x>> \o sorted
             ELSE <<h>> \o InsertSorted(Tail(sorted), x, sort_by, reverse)

RECURSIVE SortDocs(_, _, _)
SortDocs(docs, sort_by, reverse) ==
    IF docs = <<>> THEN <<>>
    ELSE InsertSorted(SortDocs(SubSeq(docs, 1, Len(docs) - 1), sort_by, reverse),
                      docs[Len(docs)], sort_by, reverse)

\* docs[offset:offset + limit]
Slice(docs, offset, limit) ==
    SubSeq(docs, offset + 1,
           IF offset + limit < Len(docs) THEN offset + limit ELSE Len(docs))

\* The "ユーザーIDでフィルタリング" comprehension of query_user_documents.
OwnedBy(user_id, results) ==
    SelectSeq(results, LAMBDA r : r.user_id = user_id)

\* query_user_documents: [raised, store_called, result].
query_user_documents(c, a) ==
    IF c.question_empty
    THEN [raised |-> "ValueError", store_called |-> FALSE, result |-> <<>>]
    ELSE IF get_user_index_name(c.user_id).error # ""
    THEN [raised |-> "ValueError", store_called |-> FALSE, result |-> <<>>]
    ELSE IF a.outcome = "error"
    THEN [raised |-> "Exception", store_called |-> TRUE, result |-> <<>>]
    ELSE IF a.outcome = "not_found"
    THEN [raised |-> "", store_called |-> TRUE, result |-> <<>>]
    ELSE [raised |-> "", store_called |-> TRUE,
          result |-> OwnedBy(c.user_id, a.items)]

\* list_user_documents_extended: search filter, sort, page.
list_user_documents_extended(c, a) ==
    IF c.limit <= 0 \/ c.offset < 0
    THEN [raised |-> "ValueError", store_called |-> FALSE, result |-> <<>>]
    ELSE IF get_user_index_name(c.user_id).error # ""
    THEN [raised |-> "ValueError", store_called |-> FALSE, result |-> <<>>]
    ELSE IF a.outcome = "error"
    THEN [raised |-> "Exception", store_called |-> TRUE, result |-> <<>>]
    ELSE IF a.outcome = "not_found"
    THEN [raised |-> "", store_called |-> TRUE, result |-> <<>>]
    ELSE LET found ==
                 IF c.search # <<>>
                 THEN SelectSeq(a.items,
                        LAMBDA d : Contains(LowerStr(d.title), LowerStr(c.search)))
                 ELSE a.items
             sorted == SortDocs(found, c.sort_by, c.sort_order = "desc")
         IN  [raised |-> "", store_called |-> TRUE,
              result |-> Slice(sorted, c.offset, c.limit)]

QueryCalls ==
    {[op |-> "query", user_id |-> u, question_empty |-> e] :
        u \in CallerIds, e \in BOOLEAN}

ListCalls ==
    {[op |-> "list", user_id |-> u, limit |-> l, offset |-> o, search |-> s,
      sort_by |-> b, sort_order |-> d] :
        u \in CallerIds, l \in 0..2, o \in 0..1, s \in {<<>>, <<"A">>},
        b \in {"created_at", "title", "vector_count", "content_length"},
        d \in {"asc", "desc"}}

InitFilter ==
    /\ call \in QueryCalls \cup ListCalls
    /\ answer = <<>>
    /\ returned = <<>>
    /\ OthersIdle("filter")

QueryUserDocuments ==
    /\ returned = <<>>
    /\ call.op = "query"
    /\ \E a \in StoreAnswers :
         /\ answer' = <<a>>
         /\ returned' = <<query_user_documents(call, a)>>
    /\ UNCHANGED <<call, handlerVars, partitionVars, retryVars, imageVars>>

ListUserDocumentsExtended ==
    /\ returned = <<>>
    /\ call.op = "list"
    /\ \E a \in StoreAnswers :
         /\ answer' = <<a>>
         /\ returned' = <<list_user_documents_extended(call, a)>>
    /\ UNCHANGED <<call, handlerVars, partitionVars, retryVars, imageVars>>

NextFilter == QueryUserDocuments \/ ListUserDocumentsExtended

SpecFilter == InitFilter /\ [][NextFilter]_vars

\* ------------------------------------------------------------ SpecRetry
MaxRetryBudget == 3

\* What one call of func does: it returns, raises a ClientError whose code
\* is ThrottlingException / TooManyRequestsException, raises a ClientError
\* with another code, or raises something that is no ClientError.
FuncOutcomes == {"ok", "throttled", "client_error", "exception"}

\* Variant: the last attempt is taken to be number max_retries - 1, as in
\* a loop over range(max_retries).
IsLastAttemptOneEarly(attempt, max_retries) == attempt >= max_retries - 1

\* Variant: the raise on the last attempt is missing.
IsLastAttemptNever(attempt, max_retries) == FALSE

\* "if attempt == max_retries: raise e"
IsLastAttempt(attempt, max_retries) == attempt = max_retries

RECURSIVE Pow2(_)
Pow2(n) == IF n = 0 THEN 1 ELSE 2 * Pow2(n - 1)

\* retry_with_backoff(func, max_retries, base_delay) is called; script[i]
\* is what the i-th call of func will do.
\* Or invoke_bedrock_with_retry(model, messages) is called, with its default
\* max_retries; script[i] is what the i-th model.invoke will do.
InitRetry ==
    /\ \/ \E m \in 0..MaxRetryBudget, b \in {1, 2} :
            \E script \in [1..(m + 1) -> FuncOutcomes] :
               retry = [fn |-> "retry_with_backoff",
                        pc |-> "call", max_retries |-> m, base_delay |-> b,
                        script |-> script, attempt |-> 0, calls |-> 0,
                        sleeps |-> 0, delay |-> 0, result |-> "none"]
       \/ \E script \in [1..BedrockMaxRetries -> AttemptOutcomes] :
               retry = [fn |-> "invoke_bedrock_with_retry",
                        pc |-> "call", max_retries |-> BedrockMaxRetries,
                        base_delay |-> 1,
                        script |-> script, attempt |-> 0, calls |-> 0,
                        sleeps |-> 0, delay |-> 0, result |-> "none"]
    /\ OthersIdle("retry")

\* except ClientError with code ThrottlingException / TooManyRequestsException.
IsThrottling(o) == o = "throttled"

\* One pass through the loop body: func(), and what the except clauses do.
RetryCall ==
    /\ retry.fn = "retry_with_backoff"
    /\ retry.pc = "call"
    /\ LET o == retry.script[retry.calls + 1]
           r == [retry EXCEPT !.calls = @ + 1]
       IN  retry' =
             IF retry.attempt > retry.max_retries
             THEN [retry EXCEPT !.pc = "done", !.result = "returned None"]
             ELSE IF o = "ok"
             THEN [r EXCEPT !.pc = "done", !.result = "returned"]
             ELSE IF IsThrottling(o)
             THEN IF IsLastAttempt(retry.attempt, retry.max_retries)
                  THEN [r EXCEPT !.pc = "done", !.result = "raised throttled"]
                  ELSE [r EXCEPT
                          !.pc = "sleep",
                          !.delay = retry.base_delay * Pow2(retry.attempt)]
             ELSE [r EXCEPT !.pc = "done", !.result = "raised other"]
    /\ UNCHANGED <<handlerVars, partitionVars, filterVars, imageVars>>

\* time.sleep(delay), delay being base_delay * 2^attempt plus a jitter in
\* [0, 1); then the next attempt.
RetrySleep ==
    /\ retry.pc = "sleep"
    /\ retry' = [retry EXCEPT !.pc = "call", !.sleeps = @ + 1,
                              !.attempt = @ + 1]
    /\ UNCHANGED <<handlerVars, partitionVars, filterVars, imageVars>>

\* invoke_bedrock_with_retry run to its return or raise.
InvokeBedrock ==
    /\ retry.fn = "invoke_bedrock_with_retry"
    /\ retry.pc = "call"
    /\ LET r == invoke_bedrock_with_retry(retry.script)
       IN  retry' = [retry EXCEPT
                       !.pc = "done", !.calls = r.calls, !.sleeps = r.sleeps,
                       !.attempt = r.calls - 1,
                       !.result = IF r.ok THEN "returned"
                                  ELSE IF r.error = "throttle"
                                  THEN "raised throttled"
                                  ELSE "raised other"]
    /\ UNCHANGED <<handlerVars, partitionVars, filterVars, imageVars>>

NextRetry == RetryCall \/ RetrySleep \/ InvokeBedrock

SpecRetry == InitRetry /\ [][NextRetry]_vars

\* func() and time.sleep(delay) return: the loop keeps going.
SpecRetryFair == SpecRetry /\ WF_vars(NextRetry)

\* ------------------------------------------------------------ plan update
\* set_user_plan: an unknown plan raises ValueError; otherwise
\* UserQuota(user_id=.., plan_type=.., **defaults) is built, which raises
\* TypeError for a keyword the dataclass does not declare, and put_item
\* stores it; every exception of the two is caught and gives False.
set_user_plan(qt, t, plan_type, put_ok) ==
    IF plan_type \notin DOMAIN PLAN_DEFAULTS
    THEN [raised |-> TRUE, success |-> FALSE, table |-> qt,
          caught |-> "none"]
    ELSE IF ~(DOMAIN PLAN_DEFAULTS[plan_type] \subseteq UserQuotaFields)
    THEN [raised |-> FALSE, success |-> FALSE, table |-> qt,
          caught |-> "TypeError"]
    ELSE IF ~put_ok
    THEN [raised |-> FALSE, success |-> FALSE, table |-> qt,
          caught |-> "put_item"]
    ELSE [raised |-> FALSE, success |-> TRUE,
          table |-> [qt EXCEPT ![t] = PlanItem(plan_type)],
          caught |-> "none"]

\* plan_type values of a request body, after strip().lower().
PlanNames == {"free", "basic", "premium", "gold"}

\* user_plan_update_handler.
PlanUpdate(p) ==
    /\ Arrives(p)
    /\ \E t \in Callers, plan_type \in PlanNames, put_ok \in BOOLEAN :
         LET req == [kind |-> "plan", tenant |-> t, plan |-> plan_type]
             r == set_user_plan(quotaTable, t, plan_type, put_ok)
             st == get_quota_status(r.table, usageTable, t, today)
         IN  IF plan_type \notin {"free", "basic", "premium"} \/ r.raised
             THEN quotaTable' = quotaTable /\ Respond(p, 400, req)
             ELSE IF ~r.success \/ st.raised
             THEN /\ quotaTable' = r.table
                  /\ Respond(p, 500, [fault |-> <<"plan", r.caught>>] @@ req)
             ELSE /\ quotaTable' = r.table
                  /\ Respond(p, 200, [quota_status |-> <<st>>] @@ req)
    /\ UNCHANGED <<partitionVars, filterVars, retryVars, imageVars>>
    /\ UNCHANGED <<usageTable, today, ticks>>

\* -------------------------------------------------------- document delete
\* vector_count values of a stored document.
DocVectorCounts == {1, 3}

\* user_document_delete_handler: get_document_info (a failure counts as 0
\* vectors), then delete_user_document_with_count, which answers True or
\* False and never raises for a non-blank id.
DocumentDelete(p) ==
    /\ Arrives(p)
    /\ \E t \in Callers, has_id \in BOOLEAN,
          info \in {"raised", "none", "found"}, n \in DocVectorCounts,
          success \in BOOLEAN :
         LET req == [kind |-> "doc_delete", tenant |-> t]
             vector_count == IF info = "found" THEN n ELSE 0
         IN  IF ~has_id
             THEN Respond(p, 400, req)
             ELSE IF success
             THEN Respond(p, 200,
                     [calls |-> {"store"},
                      resource |-> [size |-> 0, vectors |-> vector_count]]
                     @@ req)
             ELSE Respond(p, 404, [calls |-> {"store"}] @@ req)
    /\ UNCHANGED <<partitionVars, filterVars, retryVars, imageVars>>
    /\ UNCHANGED <<quotaTable, usageTable, today, ticks>>

\* ------------------------------------------------------------ image quota
\* The image attributes of a usage item; absent ones read as 0 under ADD.
EmptyImageUsage ==
    [current_images |-> 0, current_image_storage_bytes |-> 0,
     current_image_vectors |-> 0, monthly_image_analyses |-> 0,
     analysis_month_year |-> NoKey]

\* getattr(obj, name, default)
GetAttr(obj, name, default) ==
    IF name \in DOMAIN obj THEN obj[name] ELSE default

\* check_image_quota_before_upload: the UserQuota and QuotaUsage objects
\* that get_user_quota and get_user_usage build are asked for max_images
\* and current_images with getattr defaults.
check_image_quota_before_upload(qt, ut, t, now) ==
    LET q == get_user_quota(qt, t, "free")
        usage == get_user_usage(ut, t, now)
        current_images == GetAttr(usage, "current_images", 0)
        max_images == GetAttr(q.quota, "max_images",
                              PLAN_DEFAULTS[q.quota.plan_type].max_images)
    IN  IF q.raised
        THEN [raised |-> TRUE, allowed |-> FALSE,
              reason |-> <<"TypeError", 0, 0>>]
        ELSE IF current_images >= max_images
        THEN [raised |-> FALSE, allowed |-> FALSE,
              reason |-> <<"Image limit reached", current_images, max_images>>]
        ELSE [raised |-> FALSE, allowed |-> TRUE, reason |-> <<"OK", 0, 0>>]

\* Variant: the delete record leaves the vector counter alone.
update_image_usage_after_delete_KeepsVectors(item, size_bytes, vector_count) ==
    [item EXCEPT
        !.current_images = @ - 1,
        !.current_image_storage_bytes = @ - size_bytes]

\* The UpdateExpression of update_image_usage_after_delete.
update_image_usage_after_delete(item, size_bytes, vector_count) ==
    [item EXCEPT
        !.current_images = @ - 1,
        !.current_image_storage_bytes = @ - size_bytes,
        !.current_image_vectors = @ - vector_count]

\* The UpdateExpression of update_image_usage_after_upload.
update_image_usage_after_upload(item, now, size_bytes, vector_count) ==
    [item EXCEPT
        !.current_images = @ + 1,
        !.current_image_storage_bytes = @ + size_bytes,
        !.current_image_vectors = @ + vector_count,
        !.monthly_image_analyses = @ + 1,
        !.analysis_month_year = MonthKey(now)]

\* The counters update_image_usage_after_upload adds to.
ImageDimensions ==
    {"images", "image_storage_mb", "image_vectors", "monthly_image_analyses"}

\* len(image_data) of an upload, and knowledge_vectors_created.
ImageSizes == {1, 3 * BytesPerMB}
ImageVectorCounts == {0, 2}

\* ---------------------------------------------------------- image handlers
\* image_upload_handler up to the validated form (lines 91-122): the image
\* count check, then parse_multipart_data, the title and validate_image_file.
ImageUploadCheck(p) ==
    /\ Arrives(p)
    /\ \E t \in Callers, form_ok \in BOOLEAN, size \in ImageSizes :
         LET chk == check_image_quota_before_upload(quotaTable, usageTable,
                                                    t, today)
             req == [kind |-> "image_add", tenant |-> t,
                     checks |-> {"images"}]
         IN  IF chk.raised
             THEN Respond(p, 500, req)
             ELSE IF ~chk.allowed
             THEN Respond(p, 400, [message |-> chk.reason] @@ req)
             ELSE IF ~form_ok
             THEN Respond(p, 400, req)
             ELSE inv' = [inv EXCEPT ![p] =
                            [pc |-> "admitted",
                             resource |-> [size |-> size, vectors |-> 0]]
                            @@ req @@ @]
    /\ UNCHANGED <<partitionVars, filterVars, retryVars, imageVars>>
    /\ UNCHANGED <<quotaTable, usageTable, today, ticks>>

\* Lines 124-212: save_image, OCR and vision analysis, knowledge vectors,
\* save_image_metadata (an exception of any of them is the 500), then
\* update_image_usage_after_upload (a failure is caught and printed) and
\* the 200 response.
ImageUploadPerform(p) ==
    /\ inv[p].pc = "admitted"
    /\ inv[p].kind = "image_add"
    /\ \E stored \in BOOLEAN, vectors \in ImageVectorCounts,
          written \in BOOLEAN :
         LET t == inv[p].tenant
         IN  IF ~stored
             THEN /\ imageUsage' = imageUsage
                  /\ Respond(p, 500, [calls |-> {"image store"},
                                      checks |-> inv[p].checks])
             ELSE /\ imageUsage' =
                       IF written
                       THEN [imageUsage EXCEPT ![t] =
                               update_image_usage_after_upload(@, today,
                                   inv[p].resource.size, vectors)]
                       ELSE imageUsage
                  /\ Respond(p, 200,
                        [calls |-> {"image store"},
                         checks |-> inv[p].checks,
                         updates |-> IF written THEN 1 ELSE 0,
                         recorded |-> IF written THEN ImageDimensions ELSE {},
                         resource |-> [size |-> inv[p].resource.size,
                                       vectors |-> vectors]])
    /\ UNCHANGED <<partitionVars, filterVars, retryVars, ledger, imageTable>>
    /\ UNCHANGED <<quotaTable, usageTable, today, ticks>>

\* What get_image_info finds: nothing, or the stored size and
\* knowledge_vectors_created.
ImageInfos ==
    [size : ImageSizes, vectors : ImageVectorCounts]

\* image_delete_handler: get_image_info (404 when there is none),
\* delete_image, delete_knowledge_by_image when there are vectors, then
\* update_image_usage_after_delete (a failure is caught and printed).
ImageDelete(p) ==
    /\ Arrives(p)
    /\ \E t \in Callers, has_id \in BOOLEAN, found \in BOOLEAN,
          info \in ImageInfos, success \in BOOLEAN,
          knowledge_ok \in BOOLEAN, written \in BOOLEAN :
         LET req == [kind |-> "image_delete", tenant |-> t]
         IN  IF ~has_id
             THEN imageUsage' = imageUsage /\ Respond(p, 400, req)
             ELSE IF ~found
             THEN imageUsage' = imageUsage /\ Respond(p, 404, req)
             ELSE IF ~success
             THEN imageUsage' = imageUsage /\ Respond(p, 500, req)
             ELSE IF info.vectors > 0 /\ ~knowledge_ok
             THEN /\ imageUsage' = imageUsage
                  /\ Respond(p, 500, [calls |-> {"image store"}] @@ req)
             ELSE /\ imageUsage' =
                       IF written
                       THEN [imageUsage EXCEPT ![t] =
                               update_image_usage_after_delete(@,
                                   info.size, info.vectors)]
                       ELSE imageUsage
                  /\ Respond(p, 200,
                        [calls |-> {"image store"},
                         updates |-> IF written THEN 1 ELSE 0,
                         resource |-> info] @@ req)
    /\ UNCHANGED <<partitionVars, filterVars, retryVars, ledger, imageTable>>
    /\ UNCHANGED <<quotaTable, usageTable, today, ticks>>

\* What query_image_knowledge met: nothing, or an exception of the vector
\* search or of the answer generation. It catches either and returns a
\* result that carries the error text.
KnowledgeFaults == {NoFault, <<"search", "error">>, <<"answer", "error">>}

\* image_query_handler: check_quota_before_query (429 with the message and
\* a code), the request body, ImageKnowledgeManager(), whose failure is the
\* 500, query_image_knowledge, then update_usage_after_query and the 200
\* response.
ImageQuery(p) ==
    /\ Arrives(p)
    /\ \E t \in Callers, body_ok \in BOOLEAN, manager_ok \in BOOLEAN,
          met \in KnowledgeFaults, written \in BOOLEAN :
         LET chk == check_quota_before_query(quotaTable, usageTable, t, today)
             req == [kind |-> "image_query", tenant |-> t,
                     checks |-> {"monthly_queries"}]
         IN  IF chk.raised
             THEN usageTable' = usageTable /\ Respond(p, 500, req)
             ELSE IF ~chk.allowed
             THEN /\ usageTable' = usageTable
                  /\ Respond(p, 429, [message |-> chk.reason] @@ req)
             ELSE IF ~body_ok
             THEN usageTable' = usageTable /\ Respond(p, 400, req)
             ELSE IF ~manager_ok
             THEN usageTable' = usageTable /\ Respond(p, 500, req)
             ELSE /\ usageTable' =
                       IF written
                       THEN [usageTable EXCEPT ![t] =
                               update_usage_after_query(@, today)]
                       ELSE usageTable
                  /\ Respond(p, 200,
                        [calls |-> {"image knowledge"}, fault |-> met,
                         updates |-> IF written THEN 1 ELSE 0,
                         recorded |-> IF written THEN {"monthly_queries"}
                                      ELSE {}] @@ req)
    /\ UNCHANGED <<partitionVars, filterVars, retryVars, imageVars>>
    /\ UNCHANGED <<quotaTable, today, ticks>>

\* --------------------------------------------------------- SpecExtended
\* Image attributes the image handlers leave behind in t1's usage item:
\* none, some, and the free plan's image count and storage at or next to
\* their limits.
BaseImageUsage ==
    [current_images |-> 5, current_image_storage_bytes |-> 10 * BytesPerMB,
     current_image_vectors |-> 10, monthly_image_analyses |-> 5,
     analysis_month_year |-> MonthKey(StartDate)]

ImageUsageSeeds ==
    {EmptyImageUsage,
     BaseImageUsage,
     [BaseImageUsage EXCEPT !.current_images = 19],
     [BaseImageUsage EXCEPT !.current_images = 20],
     [BaseImageUsage EXCEPT !.current_image_storage_bytes = 99 * BytesPerMB,
                            !.monthly_image_analyses = 50]}

\* The plan update, delete and image handlers, for t1 with no plan item or
\* the free one.
InitExtended ==
    /\ quotaTable \in {[t \in Tenants |-> IF t = "t1" THEN q ELSE PlanItem("basic")] :
                         q \in {NoPlanItem, PlanItem("free")}}
    /\ usageTable \in {[t \in Tenants |-> IF t = "t1" THEN u ELSE EmptyUsage] :
                         u \in {BaseUsage,
                                [BaseUsage EXCEPT !.monthly_queries = 500]}}
    /\ imageUsage \in {[t \in Tenants |-> IF t = "t1" THEN u ELSE EmptyImageUsage] :
                         u \in ImageUsageSeeds}
    /\ today = StartDate
    /\ ticks = 0
    /\ inv = [p \in 1..NumInvocations |-> IdleInv]
    /\ ledger = <<>>
    /\ OthersIdle("images")

NextExtended ==
    \/ \E p \in DOMAIN inv : PlanUpdate(p)
    \/ \E p \in DOMAIN inv : DocumentDelete(p)
    \/ \E p \in DOMAIN inv : ImageUploadCheck(p)
    \/ \E p \in DOMAIN inv : ImageUploadPerform(p)
    \/ \E p \in DOMAIN inv : ImageDelete(p)
    \/ \E p \in DOMAIN inv : ImageQuery(p)

SpecExtended == InitExtended /\ [][NextExtended]_vars

\* ----------------------------------------------------------- SpecLedger
\* update_image_usage_after_upload(size, v) and then
\* update_image_usage_after_delete(size, v) on t1's item; applied tells, per
\* call, whether its update_item went through.
InitLedger ==
    /\ imageUsage \in {[t \in Tenants |-> IF t = "t1" THEN u ELSE EmptyImageUsage] :
                         u \in ImageUsageSeeds}
    /\ \E size \in ImageSizes, v \in ImageVectorCounts :
         ledger = [pc |-> "start", size |-> size, vectors |-> v,
                   before |-> imageUsage["t1"], applied |-> <<>>]
    /\ OthersIdle("ledger")

LedgerUpload ==
    /\ ledger.pc = "start"
    /\ \E written \in BOOLEAN :
         /\ imageUsage' =
              IF written
              THEN [imageUsage EXCEPT !["t1"] =
                      update_image_usage_after_upload(@, StartDate,
                          ledger.size, ledger.vectors)]
              ELSE imageUsage
         /\ ledger' = [ledger EXCEPT !.pc = "uploaded",
                                     !.applied = Append(@, written)]
    /\ UNCHANGED <<handlerVars, partitionVars, filterVars, retryVars, imageTable>>

LedgerDelete ==
    /\ ledger.pc = "uploaded"
    /\ \E written \in BOOLEAN :
         /\ imageUsage' =
              IF written
              THEN [imageUsage EXCEPT !["t1"] =
                      update_image_usage_after_delete(@,
                          ledger.size, ledger.vectors)]
              ELSE imageUsage
         /\ ledger' = [ledger EXCEPT !.pc = "done",
                                     !.applied = Append(@, written)]
    /\ UNCHANGED <<handlerVars, partitionVars, filterVars, retryVars, imageTable>>

NextLedger == LedgerUpload \/ LedgerDelete

SpecLedger == InitLedger /\ [][NextLedger]_vars

\* -------------------------------------------------------- SpecIsolation
\* Variant: the daily reset is applied to every item of the usage table.
reset_daily_usage_AllItems(ut, t, now) ==
    [k \in DOMAIN ut |->
        [ut[k] EXCEPT !.daily_uploads = 0, !.upload_date = DayKey(now)]]

\* reset_daily_usage: SET daily_uploads = 0, upload_date = today on the
\* item with Key user_id.
reset_daily_usage(ut, t, now) ==
    [ut EXCEPT ![t] =
        [@ EXCEPT !.daily_uploads = 0, !.upload_date = DayKey(now)]]

\* reset_monthly_usage: SET monthly_queries = 0, month_year = this month on
\* the item with Key user_id.
reset_monthly_usage(ut, t, now) ==
    [ut EXCEPT ![t] =
        [@ EXCEPT !.monthly_queries = 0, !.month_year = MonthKey(now)]]

\* A call of reset_daily_usage for a tenant; an update_item failure is
\* caught and printed.
ResetDailyUsage ==
    /\ \E t \in Callers, written \in BOOLEAN :
         usageTable' = IF written
                       THEN reset_daily_usage(usageTable, t, today)
                       ELSE usageTable
    /\ UNCHANGED <<partitionVars, filterVars, retryVars, imageVars>>
    /\ UNCHANGED <<quotaTable, today, ticks, inv>>

ResetMonthlyUsage ==
    /\ \E t \in Callers, written \in BOOLEAN :
         usageTable' = IF written
                       THEN reset_monthly_usage(usageTable, t, today)
                       ELSE usageTable
    /\ UNCHANGED <<partitionVars, filterVars, retryVars, imageVars>>
    /\ UNCHANGED <<quotaTable, today, ticks, inv>>

\* The items of the tenant that makes no request: counters above zero under
\* the window keys of the day and month before StartDate.
BystanderUsage ==
    [BaseUsage EXCEPT !.daily_uploads = 3, !.upload_date = 131,
                      !.monthly_queries = 20, !.month_year = 1]

BystanderImageUsage == [BaseImageUsage EXCEPT !.current_images = 2]

\* Every quota operation, run for t1 while t2's items are in the tables.
InitIsolation ==
    /\ quotaTable = [t \in Tenants |->
                       IF t = "t1" THEN PlanItem("free") ELSE PlanItem("basic")]
    /\ usageTable \in {[t \in Tenants |->
                          IF t = "t1" THEN u ELSE BystanderUsage] :
                         u \in {BaseUsage,
                                [BaseUsage EXCEPT !.monthly_queries = 500]}}
    /\ imageUsage = [t \in Tenants |->
                       IF t = "t1" THEN BaseImageUsage
                       ELSE BystanderImageUsage]
    /\ today = StartDate
    /\ ticks = 0
    /\ inv = [p \in 1..NumInvocations |-> IdleInv]
    /\ ledger = <<>>
    /\ OthersIdle("images")

NextIsolation ==
    \/ \E p \in DOMAIN inv : AddCheck(p)
    \/ \E p \in DOMAIN inv : Reject(p)
    \/ \E p \in DOMAIN inv : AddPerform(p)
    \/ \E p \in DOMAIN inv : AddRecord(p)
    \/ \E p \in DOMAIN inv : QueryCheck(p)
    \/ \E p \in DOMAIN inv : QuerySearch(p)
    \/ \E p \in DOMAIN inv : QueryChat(p)
    \/ \E p \in DOMAIN inv : QueryRecord(p)
    \/ \E p \in DOMAIN inv : PlanUpdate(p)
    \/ \E p \in DOMAIN inv : ImageUploadCheck(p)
    \/ \E p \in DOMAIN inv : ImageUploadPerform(p)
    \/ \E p \in DOMAIN inv : ImageDelete(p)
    \/ \E p \in DOMAIN inv : ImageQuery(p)
    \/ ResetDailyUsage
    \/ ResetMonthlyUsage

SpecIsolation == InitIsolation /\ [][NextIsolation]_vars

\* ------------------------------------------------------- SpecDeleteRace
\* The image all the delete requests name, and what its item holds.
RacedImage == "img1"
RacedImageInfo == [size |-> 3 * BytesPerMB, vectors |-> 2]

\* get_image_info: the item of (user_id, image_id), or None.
get_image_info(tbl, t, image_id) == image_id \in tbl[t]

\* image_delete_handler up to "if not image_info" (lines 322-341).
DeleteLookup(p) ==
    /\ Arrives(p)
    /\ \E t \in Callers :
         LET req == [kind |-> "image_delete", tenant |-> t]
         IN  IF get_image_info(imageTable, t, RacedImage)
             THEN inv' = [inv EXCEPT ![p] =
                            [pc |-> "found", resource |-> RacedImageInfo]
                            @@ req @@ @]
             ELSE Respond(p, 404, req)
    /\ UNCHANGED <<partitionVars, filterVars, retryVars, imageVars>>
    /\ UNCHANGED <<quotaTable, usageTable, today, ticks>>

\* delete_image, its own get_image_info: False, the handler's 500, when
\* the item is gone.
DeleteInnerLookup(p) ==
    /\ inv[p].pc = "found"
    /\ IF get_image_info(imageTable, inv[p].tenant, RacedImage)
       THEN inv' = [inv EXCEPT ![p].pc = "removing"]
       ELSE Respond(p, 500, [resource |-> inv[p].resource])
    /\ UNCHANGED <<partitionVars, filterVars, retryVars, imageVars>>
    /\ UNCHANGED <<quotaTable, usageTable, today, ticks>>

\* delete_image, the rest: the S3 objects (a failure is passed over) and
\* delete_item, which succeeds whether or not the item is still there; an
\* exception of it is caught and gives False.
DeleteRemove(p) ==
    /\ inv[p].pc = "removing"
    /\ \E deleted \in BOOLEAN :
         IF deleted
         THEN /\ imageTable' = [imageTable EXCEPT ![inv[p].tenant] =
                                   @ \ {RacedImage}]
              /\ inv' = [inv EXCEPT ![p] =
                           [pc |-> "removed", calls |-> {"image store"}] @@ @]
         ELSE /\ imageTable' = imageTable
              /\ Respond(p, 500, [resource |-> inv[p].resource])
    /\ UNCHANGED <<partitionVars, filterVars, retryVars, imageUsage, ledger>>
    /\ UNCHANGED <<quotaTable, usageTable, today, ticks>>

\* Lines 347-366: delete_knowledge_by_image when there are vectors, then
\* update_image_usage_after_delete (a failure is caught and printed) and
\* the 200 response.
DeleteRecord(p) ==
    /\ inv[p].pc = "removed"
    /\ \E knowledge_ok \in BOOLEAN, written \in BOOLEAN :
         LET info == inv[p].resource
         IN  IF info.vectors > 0 /\ ~knowledge_ok
             THEN /\ imageUsage' = imageUsage
                  /\ Respond(p, 500, [resource |-> info])
             ELSE /\ imageUsage' =
                       IF written
                       THEN [imageUsage EXCEPT ![inv[p].tenant] =
                               update_image_usage_after_delete(@,
                                   info.size, info.vectors)]
                       ELSE imageUsage
                  /\ Respond(p, 200,
                        [updates |-> IF written THEN 1 ELSE 0,
                         resource |-> info])
    /\ UNCHANGED <<partitionVars, filterVars, retryVars, ledger, imageTable>>
    /\ UNCHANGED <<quotaTable, usageTable, today, ticks>>

\* NumRacers delete requests of t1 for one stored image; the image
\* counters count the stored images.
InitDeleteRace ==
    /\ quotaTable = [t \in Tenants |->
                       IF t = "t1" THEN PlanItem("free") ELSE PlanItem("basic")]
    /\ usageTable = [t \in Tenants |-> IF t = "t1" THEN BaseUsage ELSE EmptyUsage]
    /\ \E others \in SUBSET {"img2", "img3"} :
         /\ imageTable = [t \in Tenants |->
                            IF t = "t1" THEN {RacedImage} \cup others ELSE {}]
         /\ imageUsage = [t \in Tenants |->
                            IF t = "t1"
                            THEN [BaseImageUsage EXCEPT
                                    !.current_images = 1 + Cardinality(others)]
                            ELSE EmptyImageUsage]
    /\ today = StartDate
    /\ ticks = 0
    /\ inv = [p \in 1..NumRacers |-> IdleInv]
    /\ ledger = <<>>
    /\ OthersIdle("deletes")

NextDeleteRace ==
    \/ \E p \in DOMAIN inv : DeleteLookup(p)
    \/ \E p \in DOMAIN inv : DeleteInnerLookup(p)
    \/ \E p \in DOMAIN inv : DeleteRemove(p)
    \/ \E p \in DOMAIN inv : DeleteRecord(p)

SpecDeleteRace == InitDeleteRace /\ [][NextDeleteRace]_vars

\* ================================================================ claims
Quota(t) == get_user_quota(quotaTable, t, "free").quota
HasPlan(t) == quotaTable[t].exists
StaleDay(t) == usageTable[t].upload_date \notin {NoKey, DayKey(today)}
StaleMonth(t) == usageTable[t].month_year \notin {NoKey, MonthKey(today)}
\* p takes a handler step.
Steps(p) == inv'[p] # inv[p]
\* p runs its quota check in this step.
Checks(p, k) == inv[p].pc = "idle" /\ inv'[p].pc # "idle" /\ inv'[p].kind = k

\* C1: a request whose quota check says not-allowed makes no call to the
\* embedding service, the vector store or the chat model and applies no
\* usage update while it is being rejected, and its next step is the 429
\* response carrying the status snapshot read at that moment.
C1_RejectionShortCircuits ==
    [][\A p \in DOMAIN inv :
          /\ (Steps(p) /\ inv'[p].pc = "rejected")
                => (usageTable' = usageTable /\ inv'[p].calls = {})
          /\ (Steps(p) /\ inv[p].pc = "rejected")
                => /\ inv'[p].pc = "done"
                   /\ inv'[p].status = 429
                   /\ inv'[p].quota_status =
                        <<get_quota_status(quotaTable, usageTable,
                                           inv[p].tenant, today)>>
                   /\ inv'[p].calls = {}
                   /\ inv'[p].updates = 0
                   /\ usageTable' = usageTable]_vars

C1_Witness ==
    \E p \in DOMAIN inv :
        /\ inv[p].pc = "done"
        /\ inv[p].status = 429
        /\ inv[p].kind = "add"
        /\ inv[p].message[1] = "Document limit exceeded"

\* C2: with NumRacers concurrent AddDocument invocations of one tenant whose
\* document counter starts at or below max_documents, the counter never
\* gets more than NumRacers - 1 above max_documents.
C2_OvershootAtMostNMinus1 ==
    usageTable["t1"].current_documents
        <= Quota("t1").max_documents + NumRacers - 1

\* All racers passed the check, all recorded, and the counter stands
\* NumRacers - 1 above the limit.
C2_Witness ==
    /\ \A p \in DOMAIN inv :
          inv[p].pc = "done" /\ inv[p].status = 200 /\ inv[p].updates = 1
    /\ usageTable["t1"].current_documents
          = Quota("t1").max_documents + NumRacers - 1
    /\ NumRacers > 1

\* C5: a usage record written under a stored window key that differs from
\* the current one leaves the periodic counter equal to the delta, 1, and
\* the stored key equal to the current window.
C5_RecordResetsStaleWindow ==
    [][\A p \in DOMAIN inv :
          LET t == inv[p].tenant
          IN  /\ (Steps(p) /\ inv[p].pc = "stored" /\ inv'[p].updates = 1
                    /\ StaleDay(t))
                   => /\ usageTable'[t].daily_uploads = 1
                      /\ usageTable'[t].upload_date = DayKey(today)
              /\ (Steps(p) /\ inv[p].pc = "answered" /\ inv'[p].updates = 1
                    /\ StaleMonth(t))
                   => /\ usageTable'[t].monthly_queries = 1
                      /\ usageTable'[t].month_year = MonthKey(today)]_vars

\* C6: a quota check made while the stored window key differs from the
\* current one does not count the stored periodic counter: an upload is
\* turned away only if documents, vectors or storage say so, a query is not
\* turned away at all.
C6_StaleCounterReadsZero ==
    [][\A p \in DOMAIN inv :
          LET t == inv'[p].tenant
              u == usageTable[t]
          IN  /\ (Checks(p, "add") /\ HasPlan(t) /\ StaleDay(t)
                    /\ inv'[p].pc = "rejected")
                   => \/ u.current_documents + 1 > Quota(t).max_documents
                      \/ u.current_vectors + inv'[p].estimated_vectors
                            > Quota(t).max_vectors
                      \/ u.current_storage_bytes + inv'[p].text.bytes
                            > Quota(t).max_storage_size_mb * BytesPerMB
              /\ (Checks(p, "query") /\ HasPlan(t) /\ StaleMonth(t))
                   => inv'[p].pc # "rejected"]_vars

\* An upload admitted although the stored daily counter, under yesterday's
\* key, is at the limit.
C6_Witness ==
    \E p \in DOMAIN inv :
        /\ inv[p].pc = "admitted"
        /\ inv[p].kind = "add"
        /\ StaleDay(inv[p].tenant)
        /\ usageTable[inv[p].tenant].daily_uploads
              >= Quota(inv[p].tenant).max_daily_uploads

\* The daily counter as the check sees it.
EffectiveDailyUploads(t) ==
    IF StaleDay(t) THEN 0 ELSE usageTable[t].daily_uploads

\* C7: check_quota_before_upload admits exactly when documents + 1, vectors
\* + estimate, storage + size and effective daily uploads + 1 all stay
\* within their limits.
C7_AllowedIffAllFourFit ==
    [][\A p \in DOMAIN inv :
          LET t == inv'[p].tenant
              u == usageTable[t]
              q == Quota(t)
          IN  (Checks(p, "add") /\ HasPlan(t)
                 /\ inv'[p].pc \in {"admitted", "rejected"})
                => (inv'[p].pc = "admitted"
                      <=> /\ u.current_documents + 1 <= q.max_documents
                          /\ u.current_vectors + inv'[p].estimated_vectors
                                <= q.max_vectors
                          /\ u.current_storage_bytes + inv'[p].text.bytes
                                <= q.max_storage_size_mb * BytesPerMB
                          /\ EffectiveDailyUploads(t) + 1
                                <= q.max_daily_uploads)]_vars

\* An upload turned away by the vector limit alone.
C7_Witness ==
    \E p \in DOMAIN inv :
        LET u == usageTable[inv[p].tenant]
            q == Quota(inv[p].tenant)
        IN  /\ inv[p].pc = "rejected"
            /\ inv[p].kind = "add"
            /\ inv[p].message[1] = "Vector limit would be exceeded"
            /\ u.current_documents < q.max_documents
            /\ u.daily_uploads < q.max_daily_uploads

\* C8: an AddDocument that answers 200 has applied exactly one usage
\* update: documents + 1, vectors + the stored count, storage + the text's
\* size, daily uploads + 1.
C8_SuccessRecordsExactlyOnce ==
    [][\A p \in DOMAIN inv :
          LET t == inv[p].tenant
          IN  (Steps(p) /\ inv[p].pc = "stored" /\ inv'[p].status = 200)
                => /\ inv'[p].updates = 1
                   /\ usageTable'[t].current_documents
                        = usageTable[t].current_documents + 1
                   /\ usageTable'[t].current_vectors
                        = usageTable[t].current_vectors + inv[p].vector_count
                   /\ usageTable'[t].current_storage_bytes
                        = usageTable[t].current_storage_bytes
                            + inv[p].text.bytes
                   /\ usageTable'[t].daily_uploads
                        = usageTable[t].daily_uploads + 1]_vars

\* The failure is one query_user_documents answers with an empty result.
MissingIndexInSearch(i) ==
    i.kind = "query" /\ i.fault[1] \in {"embed", "store"}
        /\ i.fault[2] = "not_found"

\* C9 as stated: an invocation whose embedding, vector-store or chat call
\* failed ends in an error response and has changed no usage.
C9_FailureNeverRecords ==
    \A p \in DOMAIN inv :
        (inv[p].pc = "done" /\ inv[p].fault # NoFault)
            => (inv[p].status \in {400, 500} /\ inv[p].updates = 0)

\* C9 amended: the same, except for a failure inside query_user_documents
\* whose message names a missing index.
C9_FailureRecordsNothingUnlessMissingIndex ==
    [][\A p \in DOMAIN inv :
          (Steps(p) /\ inv'[p].pc = "done" /\ inv'[p].fault # NoFault
             /\ ~MissingIndexInSearch(inv'[p]))
            => /\ inv'[p].status \in {400, 500}
               /\ inv'[p].updates = 0
               /\ usageTable' = usageTable]_vars

\* An AddDocument whose put_vectors failed, with a missing-index message.
C9_Witness ==
    \E p \in DOMAIN inv :
        /\ inv[p].pc = "done"
        /\ inv[p].kind = "add"
        /\ inv[p].fault = <<"store", "not_found">>
        /\ inv[p].status = 500

\* C3: two distinct tenant ids that get_user_index_name both accepts get
\* different index names.
C3_DistinctIdsDistinctPartitions ==
    (/\ parts["A"] # <<>> /\ parts["B"] # <<>>
     /\ parts["A"][1].error = "" /\ parts["B"][1].error = ""
     /\ ids["A"] # ids["B"])
        => parts["A"][1].name # parts["B"][1].name

\* C4: no record returned to the caller, by a query or by a listing,
\* carries a user_id other than the caller's.
C4_OnlyOwnedRecordsReturned ==
    returned # <<>>
        => \A i \in 1..Len(returned[1].result) :
              returned[1].result[i].user_id = call.user_id

\* The number of leading "throttled" entries of a script.
RECURSIVE LeadingThrottles(_)
LeadingThrottles(script) ==
    IF script # <<>> /\ Head(script) = "throttled"
    THEN 1 + LeadingThrottles(Tail(script))
    ELSE 0

\* C10: if func is throttled on its first k calls, k <= max_retries, and
\* then succeeds, retry_with_backoff returns its result after exactly k + 1
\* calls and k sleeps.
C10_SucceedsAfterKThrottles ==
    LET k == LeadingThrottles(retry.script)
    IN  (retry.pc = "done" /\ k <= retry.max_retries
           /\ retry.script[k + 1] = "ok")
          => /\ retry.result = "returned"
             /\ retry.calls = k + 1
             /\ retry.sleeps = k

\* Throttled twice with max_retries = 3: success after exactly 3 calls.
C10_Witness ==
    /\ retry.pc = "done"
    /\ retry.max_retries = 3
    /\ LeadingThrottles(retry.script) = 2
    /\ retry.result = "returned"
    /\ retry.calls = 3

\* The position of the first entry of a script that is neither a success
\* nor a throttling error, when only throttling errors come before it; 0 when
\* there is none.
FirstOtherError(script) ==
    LET isOther(o) == o \in {"client_error", "exception", "other"}
        isThrottle(o) == o \in {"throttled", "throttle"}
        cand == {i \in DOMAIN script :
                    /\ isOther(script[i])
                    /\ \A j \in 1..(i - 1) : isThrottle(script[j])}
    IN  IF cand = {} THEN 0 ELSE CHOOSE i \in cand : TRUE

\* C11: when a call of fn raises an error that is not a throttling error,
\* retry_with_backoff and invoke_bedrock_with_retry raise it at once: that
\* call is the last one and no sleep follows it, so an error on the j-th
\* call ends the function after j calls and j - 1 sleeps (1 call and no
\* sleep when it is the first).
C11_OtherErrorPropagatesAtOnce ==
    LET j == FirstOtherError(retry.script)
    IN  /\ (retry.pc = "done" /\ j > 0)
            => /\ retry.result = "raised other"
               /\ retry.calls = j
               /\ retry.sleeps = j - 1
        /\ (retry.pc = "sleep")
            => IsThrottling(retry.script[retry.calls])

\* invoke_bedrock_with_retry has raised the non-throttling error of its
\* first model.invoke after exactly one call.
C11_Witness ==
    /\ retry.pc = "done"
    /\ retry.fn = "invoke_bedrock_with_retry"
    /\ retry.script[1] = "other"
    /\ retry.result = "raised other"
    /\ retry.calls = 1
    /\ retry.sleeps = 0

\* C12: when every call of func is throttled, retry_with_backoff comes to
\* an end, and it ends by raising the throttling error after exactly
\* max_retries + 1 calls and max_retries sleeps.
C12_AlwaysThrottledExhaustsBudget ==
    LET allThrottled ==
            /\ retry.fn = "retry_with_backoff"
            /\ \A i \in DOMAIN retry.script : retry.script[i] = "throttled"
    IN  /\ allThrottled ~> (retry.pc = "done")
        /\ [](allThrottled /\ retry.pc = "done"
                => /\ retry.result = "raised throttled"
                   /\ retry.calls = retry.max_retries + 1
                   /\ retry.sleeps = retry.max_retries)

\* max_retries = 2 and three throttled calls: raised after 3 calls, 2 sleeps.
C12_Witness ==
    /\ retry.fn = "retry_with_backoff"
    /\ retry.pc = "done"
    /\ retry.max_retries = 2
    /\ \A i \in DOMAIN retry.script : retry.script[i] = "throttled"
    /\ retry.result = "raised throttled"
    /\ retry.calls = 3
    /\ retry.sleeps = 2

\* C13: the embedding service and the vector store are called through the
\* retry policy, so an AddDocument or Query fails on a throttling error of
\* one of them only after that call was tried more than once.
C13_ThrottledCallsAreRetried ==
    \A p \in DOMAIN inv :
        (/\ inv[p].pc = "done"
         /\ inv[p].status = 500
         /\ inv[p].fault[1] \in {"embed", "store"}
         /\ inv[p].fault[2] = "throttled")
            => inv[p].tries > 1

\* C14: a plan update naming free, basic or premium, whose put_item does
\* not fail, answers 200 and leaves the tenant's plan item holding that
\* plan and its limits, and it changes no usage counter and no window key.
C14_SetPlanReplacesPlanOnly ==
    [][\A p \in DOMAIN inv :
          (/\ Steps(p)
           /\ inv'[p].kind = "plan"
           /\ inv'[p].plan \in {"free", "basic", "premium"}
           /\ inv'[p].fault # <<"plan", "put_item">>)
             => /\ inv'[p].status = 200
                /\ quotaTable'[inv'[p].tenant] = PlanItem(inv'[p].plan)
                /\ usageTable' = usageTable
                /\ imageUsage' = imageUsage]_vars

\* C15: a deletion is never turned away by a limit check, and one that
\* answers 200 has lowered the tenant's counters by the deleted resource's
\* amounts: documents by 1 and vectors by its vector count for a document;
\* images by 1, image storage by its size and image vectors by its vector
\* count for an image.
C15_DeletionLowersCounters ==
    [][\A p \in DOMAIN inv :
          LET t == inv'[p].tenant
              r == inv'[p].resource
          IN  /\ (Steps(p) /\ inv'[p].kind \in {"doc_delete", "image_delete"})
                   => inv'[p].status # 429
              /\ (Steps(p) /\ inv'[p].kind = "doc_delete"
                     /\ inv'[p].status = 200)
                   => /\ usageTable'[t].current_documents
                           = usageTable[t].current_documents - 1
                      /\ usageTable'[t].current_vectors
                           = usageTable[t].current_vectors - r.vectors
              /\ (Steps(p) /\ inv'[p].kind = "image_delete"
                     /\ inv'[p].status = 200)
                   => /\ imageUsage'[t].current_images
                           = imageUsage[t].current_images - 1
                      /\ imageUsage'[t].current_image_storage_bytes
                           = imageUsage[t].current_image_storage_bytes - r.size
                      /\ imageUsage'[t].current_image_vectors
                           = imageUsage[t].current_image_vectors - r.vectors]_vars

\* C16: once update_image_usage_after_upload(size, v) and then
\* update_image_usage_after_delete(size, v) have both been applied to a
\* tenant's item, current_images, current_image_storage_mb and
\* current_image_vectors are what they were before the pair.
C16_UploadThenDeleteRestores ==
    (ledger.pc = "done" /\ ledger.applied = <<TRUE, TRUE>>)
        => /\ imageUsage["t1"].current_images = ledger.before.current_images
           /\ imageUsage["t1"].current_image_storage_bytes
                = ledger.before.current_image_storage_bytes
           /\ imageUsage["t1"].current_image_vectors
                = ledger.before.current_image_vectors

\* The pair has been applied for a 3 MB image with 2 vectors to an item that
\* held 19 images.
C16_Witness ==
    /\ ledger.pc = "done"
    /\ ledger.applied = <<TRUE, TRUE>>
    /\ ledger.size = 3 * BytesPerMB
    /\ ledger.vectors = 2
    /\ ledger.before.current_images = 19
    /\ imageUsage["t1"].monthly_image_analyses
         = ledger.before.monthly_image_analyses + 1

\* C17: for a tenant with a plan item, the image count check of an upload
\* rejects exactly when the current_images recorded in the usage store has
\* reached the plan's max_images.
C17_ImageCheckRejectsAtMaxImages ==
    [][\A p \in DOMAIN inv :
          LET t == inv'[p].tenant
          IN  (/\ inv[p].pc = "idle"
               /\ Steps(p)
               /\ inv'[p].kind = "image_add"
               /\ HasPlan(t))
                 => (inv'[p].message[1] = "Image limit reached"
                       <=> imageUsage[t].current_images
                             >= PLAN_DEFAULTS[Quota(t).plan_type].max_images)]_vars

\* C18: an image upload goes on to storage and analysis, and records its
\* usage, only after a quota check of each of the four dimensions it
\* records.
C18_EveryRecordedDimensionChecked ==
    \A p \in DOMAIN inv :
        (/\ inv[p].kind = "image_add"
         /\ inv[p].pc = "admitted" \/ inv[p].recorded # {})
            => ImageDimensions \subseteq inv[p].checks

\* C19: every request turned away by a quota check is answered 429 with the
\* tenant's current usage and limits in the body.
C19_RejectionIs429WithStatus ==
    \A p \in DOMAIN inv :
        (/\ inv[p].pc = "done"
         /\ inv[p].message[1] \notin {"OK", "TypeError"})
            => /\ inv[p].status = 429
               /\ inv[p].quota_status # <<>>

\* C20: an AddDocument or Query whose usage update failed does not answer
\* 200: every 200 has its usage update applied.
C20_NoSuccessWithoutRecord ==
    \A p \in DOMAIN inv :
        (/\ inv[p].pc = "done"
         /\ inv[p].kind \in {"add", "query"}
         /\ inv[p].status = 200)
            => inv[p].updates = 1

\* C21: the reason of a rejected upload check names the attempted value,
\* the current value plus the requested delta, and the limit: one more
\* document, the estimated vectors, the text's bytes, one more upload of
\* the day.
C21_ReasonReportsAttemptedValue ==
    [][\A p \in DOMAIN inv :
          (Checks(p, "add") /\ inv'[p].pc = "rejected")
             => LET t == inv'[p].tenant
                    q == Quota(t)
                    u == ResetDailyIfNewDay(
                             get_user_usage(usageTable, t, today), today)
                IN  inv'[p].message \in
                      {<<"Document limit exceeded",
                         u.current_documents + 1, q.max_documents>>,
                       <<"Vector limit would be exceeded",
                         u.current_vectors + inv'[p].estimated_vectors,
                         q.max_vectors>>,
                       <<"Storage limit would be exceeded",
                         u.current_storage_bytes + inv'[p].text.bytes,
                         q.max_storage_size_mb * BytesPerMB>>,
                       <<"Daily upload limit exceeded",
                         u.daily_uploads + 1, q.max_daily_uploads>>}]_vars

\* C22: get_user_index_name raises, gives no index name and lets no caller
\* reach the store, exactly for the ids without a character of
\* [A-Za-z0-9_-] (the empty id and the whitespace-only ids among them); for
\* every other id it returns a name and the callers go on to the store.
C22_FailsIffNoNameCharacter ==
    \A k \in DOMAIN parts :
        parts[k] # <<>> =>
            LET id == ids[k]
                r == parts[k][1]
                unusable == \A i \in 1..Len(id) : id[i] \notin IndexNameChars
                query(a) == query_user_documents(
                                [op |-> "query", user_id |-> id,
                                 question_empty |-> FALSE], a)
                list(a) == list_user_documents_extended(
                                [op |-> "list", user_id |-> id, limit |-> 1,
                                 offset |-> 0, search |-> <<>>,
                                 sort_by |-> "created_at",
                                 sort_order |-> "desc"], a)
            IN  /\ r.error # "" <=> unusable
                /\ r.error # "" => r.name = <<>>
                /\ r.error = "" => r.name # <<>>
                /\ \A a \in StoreAnswers :
                      /\ query(a).store_called <=> ~unusable
                      /\ list(a).store_called <=> ~unusable
                      /\ unusable => /\ query(a).raised = "ValueError"
                                     /\ list(a).raised = "ValueError"

\* An id without a usable character was refused and an id with one usable
\* character behind an "@" was resolved.
C22_Witness ==
    /\ parts["A"] # <<>> /\ parts["B"] # <<>>
    /\ ids["A"] \in {<<" ">>, <<"@">>, <<>>}
    /\ parts["A"][1].error # ""
    /\ ids["B"] = <<"@", "a">>
    /\ parts["B"][1].error = ""

C24_NoPlanItemMeansFree ==
    [][\A p \in DOMAIN inv :
          (/\ Steps(p)
           /\ inv[p].pc = "idle"
           /\ inv'[p].kind \in {"add", "query"}
           /\ ~HasPlan(inv'[p].tenant))
              => LET t == inv'[p].tenant
                     q == get_user_quota(quotaTable, t, "free")
                     d == PLAN_DEFAULTS.free
                     u == get_user_usage([usageTable EXCEPT ![t] = EmptyUsage],
                                         t, today)
                 IN  /\ ~(inv'[p].pc = "done" /\ inv'[p].status = 500)
                     /\ ~q.raised
                     /\ q.quota = UserQuota("free", d.max_documents,
                                            d.max_vectors,
                                            d.max_storage_size_mb,
                                            d.max_monthly_queries,
                                            d.max_daily_uploads)
                     /\ u.current_documents = 0
                     /\ u.current_vectors = 0
                     /\ u.current_storage_bytes = 0
                     /\ u.monthly_queries = 0
                     /\ u.daily_uploads = 0]_vars

\* C25: in PLAN_DEFAULTS every limit of a lower plan is at most the limit
\* of the same dimension in a higher plan (free < basic < premium), and so
\* are the limits of the plan items provisioned from it.
C25_PlanLimitsMonotone ==
    /\ DOMAIN PLAN_DEFAULTS = DOMAIN PlanTier
    /\ \A p1 \in DOMAIN PLAN_DEFAULTS, p2 \in DOMAIN PLAN_DEFAULTS :
          PlanTier[p1] < PlanTier[p2] =>
              /\ DOMAIN PLAN_DEFAULTS[p1] = DOMAIN PLAN_DEFAULTS[p2]
              /\ \A dim \in DOMAIN PLAN_DEFAULTS[p1] :
                    PLAN_DEFAULTS[p1][dim] <= PLAN_DEFAULTS[p2][dim]
    /\ \A t1 \in Tenants, t2 \in Tenants :
          (/\ HasPlan(t1) /\ HasPlan(t2)
           /\ PlanTier[quotaTable[t1].plan_type]
                < PlanTier[quotaTable[t2].plan_type])
              => /\ Quota(t1).max_documents <= Quota(t2).max_documents
                 /\ Quota(t1).max_vectors <= Quota(t2).max_vectors
                 /\ Quota(t1).max_storage_size_mb
                       <= Quota(t2).max_storage_size_mb
                 /\ Quota(t1).max_monthly_queries
                       <= Quota(t2).max_monthly_queries
                 /\ Quota(t1).max_daily_uploads
                       <= Quota(t2).max_daily_uploads

\* A tenant on the free plan and one on the basic plan, after a request of
\* the first was checked against its limits.
C25_Witness ==
    /\ quotaTable["t1"] = PlanItem("free")
    /\ quotaTable["t2"] = PlanItem("basic")
    /\ \E p \in DOMAIN inv : inv[p].pc = "admitted" /\ inv[p].tenant = "t1"

\* C26: an upload is admitted when current_vectors plus the estimate for
\* its text is within max_vectors; what is recorded is the number of
\* vectors actually stored, which the estimate can fall short of, and the
\* request is answered 200 whatever the counter then is. So with requests
\* one after another and the plan unchanged, current_vectors can end above
\* max_vectors.
C26_RecordedCountNotRevalidated ==
    [][\A p \in DOMAIN inv :
          LET t == inv'[p].tenant
              u == get_user_usage(usageTable, t, today)
          IN  /\ (Checks(p, "add") /\ inv'[p].pc = "admitted")
                    => /\ inv'[p].estimated_vectors
                            = estimate_vector_count(inv'[p].text.chars)
                       /\ u.current_vectors + inv'[p].estimated_vectors
                            <= Quota(t).max_vectors
              /\ (Steps(p) /\ inv[p].pc = "stored" /\ inv'[p].updates = 1)
                    => /\ usageTable'[t].current_vectors
                            = usageTable[t].current_vectors
                                + inv[p].text.chunks
                       /\ inv'[p].status = 200
                       /\ quotaTable' = quotaTable]_vars

\* The only request that has run was admitted within the limit and
\* answered 200, and the counter stands above max_vectors.
C26_Witness ==
    \E p \in DOMAIN inv :
        /\ \A q \in DOMAIN inv \ {p} : inv[q].pc = "idle"
        /\ inv[p].pc = "done"
        /\ inv[p].kind = "add"
        /\ inv[p].status = 200
        /\ inv[p].updates = 1
        /\ usageTable[inv[p].tenant].current_vectors
              > Quota(inv[p].tenant).max_vectors

\* C27: an image query whose vector search or answer generation failed
\* inside query_image_knowledge is not charged: the tenant's
\* monthly_queries stays as it was.
C27_FailedImageQueryNotCharged ==
    [][\A p \in DOMAIN inv :
          (/\ Steps(p)
           /\ inv'[p].kind = "image_query"
           /\ inv'[p].fault # NoFault)
              => /\ usageTable'[inv'[p].tenant].monthly_queries
                      = usageTable[inv'[p].tenant].monthly_queries
                 /\ inv'[p].updates = 0]_vars

\* C28: no usage update of concurrent uploads is lost: every upload of a
\* tenant that is answered 200, however the invocations interleave, has
\* raised current_documents and daily_uploads by one and current_vectors by
\* the number of vectors it stored, so N of them raise the counters by N
\* and by the sum of their vector counts.
C28_NoUploadUpdateLost ==
    [][\A p \in DOMAIN inv :
          (/\ Steps(p)
           /\ inv[p].pc = "stored"
           /\ inv'[p].status = 200)
              => LET t == inv[p].tenant
                 IN  /\ usageTable'[t].current_documents
                          = usageTable[t].current_documents + 1
                     /\ usageTable'[t].daily_uploads
                          = usageTable[t].daily_uploads + 1
                     /\ usageTable'[t].current_vectors
                          = usageTable[t].current_vectors
                              + inv[p].vector_count]_vars

\* C29: the quota operations run for one tenant (checks, usage records,
\* resets, plan updates, status reads) leave every usage counter, window
\* key, image counter and plan limit of each other tenant as it was.
C29_OtherTenantsUntouched ==
    [][\A t \in Tenants \ Callers :
          /\ usageTable'[t] = usageTable[t]
          /\ imageUsage'[t] = imageUsage[t]
          /\ quotaTable'[t] = quotaTable[t]]_vars

\* t1's daily counter was reset and a usage update of a request of t1 was
\* written, while t2 holds counters under stale window keys.
C29_Witness ==
    /\ usageTable["t1"].daily_uploads = 0
    /\ \E p \in DOMAIN inv :
          /\ inv[p].pc = "done"
          /\ inv[p].tenant = "t1"
          /\ inv[p].updates = 1
    /\ usageTable["t2"] = BystanderUsage
    /\ StaleDay("t2")
    /\ usageTable["t2"].daily_uploads > 0

\* C30: whatever the interleaving of the delete requests for one image,
\* the image is taken off current_images at most once: the counter is never
\* below the number of the tenant's images still stored, nor below zero.
C30_ImageUnchargedAtMostOnce ==
    \A t \in Tenants :
        /\ imageUsage[t].current_images >= Cardinality(imageTable[t])
        /\ imageUsage[t].current_images >= 0

====
